---- MODULE Spec2Model ----
(***************************************************************************)
(* Model of the pipeline driver main.py: the hydra entry point go(config)  *)
(* that selects stages from main.steps, runs them in the textual order of  *)
(* its `if` blocks inside a tempfile.TemporaryDirectory, and propagates    *)
(* the first exception.                                                    *)
(*                                                                         *)
(* A Python string is modelled as a sequence of atoms (an atom is a chunk  *)
(* of characters that the program never looks inside): "download" is       *)
(* <<"download">>, "a,b" is <<"a", ",", "b">>, " download" is              *)
(* <<" ", "download">>.  A filesystem path is the sequence of its          *)
(* components, the first being "/" when the path is absolute.              *)
(***************************************************************************)
EXTENDS Integers, Sequences, FiniteSets, TLC

VARIABLES
    pc,            \* position of the driver in go()
    config,        \* the DictConfig handed to go(): leaf key -> value
    environ,       \* os.environ restricted to the two WANDB_* variables
    active_steps,  \* the local list active_steps
    tmp_dir,       \* the directory bound by the with statement
    dirs,          \* directories existing on the filesystem
    files,         \* regular files on the filesystem: path -> content
    invoked,       \* the stage invocations made so far, in order
    exc,           \* the exception propagating out of go(), if any
    outcome        \* the outcome of the process once it has ended

vars == <<pc, config, environ, active_steps, tmp_dir, dirs, files, invoked, exc, outcome>>

----------------------------------------------------------------------------
(* Bounds of the model *)

\* most names in a main.steps directive
MaxNames == 2

----------------------------------------------------------------------------
(* Strings, lists *)

Str(a) == <<a>>

_steps ==
    << Str("download"), Str("basic_cleaning"), Str("data_check"),
       Str("data_split"), Str("train_random_forest"), Str("test_regression_model") >>

StageNames == { _steps[i][1] : i \in 1..Len(_steps) }

\* position of a stage in the canonical list
Pos(s) == CHOOSE i \in 1..Len(_steps) : _steps[i] = Str(s)

RECURSIVE SeqsUpTo(_, _)
SeqsUpTo(S, n) ==
    IF n = 0 THEN {<<>>}
    ELSE LET shorter == SeqsUpTo(S, n - 1)
         IN  shorter \cup { Append(s, a) : s \in {t \in shorter : Len(t) = n - 1}, a \in S }

\* str.split(","): the chunks between the commas; "" splits into [""]
RECURSIVE Split(_)
Split(s) ==
    IF \A i \in 1..Len(s) : s[i] # ","
    THEN <<s>>
    ELSE LET k == CHOOSE i \in 1..Len(s) :
                     s[i] = "," /\ \A j \in 1..(i - 1) : s[j] # ","
         IN  <<SubSeq(s, 1, k - 1)>> \o Split(SubSeq(s, k + 1, Len(s)))

\* membership by substring: the name x occurs somewhere inside an element
ContainsSubstring(lst, x) ==
    \E i \in 1..Len(lst) : \E j \in 1..Len(lst[i]) : <<lst[i][j]>> = x

\* the Python expression  x in lst
Contains(lst, x) == \E i \in 1..Len(lst) : lst[i] = x

----------------------------------------------------------------------------
(* Filesystem paths *)

\* the directory the program was started in (hydra.utils.get_original_cwd())
OriginalCwd == <<"/", "project">>

\* the working directory go() runs in: hydra's run directory
Cwd == <<"/", "project", "outputs", "run">>

TempRoot == <<"/", "tmp">>

\* the name tempfile.TemporaryDirectory() creates
MkdTemp == TempRoot \o <<"tmpdir">>

NoDir == <<>>

IsAbsolute(p) == Len(p) > 0 /\ p[1] = "/"

\* os.path.abspath: a relative path is resolved against the working directory
Abspath(p) == IF IsAbsolute(p) THEN p ELSE Cwd \o p

\* os.path.join(head, ...) of relative components
PathJoin(head, rest) == head \o rest

\* p lies inside directory d
IsUnder(p, d) == Len(d) > 0 /\ Len(p) > Len(d) /\ SubSeq(p, 1, Len(d)) = d

----------------------------------------------------------------------------
(* JSON *)

\* Python values of the random_forest mapping: [ty |-> type, v |-> repr]
PyStr(x)   == [ty |-> "str", v |-> x]
PyInt(x)   == [ty |-> "int", v |-> x]
PyBool(x)  == [ty |-> "bool", v |-> x]
PyNone     == [ty |-> "NoneType", v |-> "None"]

Punct(c) == [k |-> "punct", v |-> c]

\* str(value): what writing the value without the json module would produce
ReprValue(x) ==
    CASE x.ty = "str" -> [k |-> "string", v |-> x.v]
      [] x.ty = "int" -> [k |-> "number", v |-> x.v]
      [] OTHER        -> [k |-> "literal", v |-> x.v]

\* the JSON token json.dump writes for a Python value
JsonValue(x) ==
    CASE x.ty = "str"      -> [k |-> "string", v |-> x.v]
      [] x.ty = "int"      -> [k |-> "number", v |-> x.v]
      [] x.ty = "bool"     -> [k |-> "literal", v |-> IF x.v = "True" THEN "true" ELSE "false"]
      [] x.ty = "NoneType" -> [k |-> "literal", v |-> "null"]

\* json.dump of a dict (a sequence of <<key, value>> in insertion order)
JsonDump(m) ==
    LET Entry(i) == << [k |-> "string", v |-> m[i][1]], Punct(":"), JsonValue(m[i][2]) >>
        F[i \in 0..Len(m)] ==
            IF i = 0 THEN <<>>
            ELSE F[i - 1] \o (IF i > 1 THEN <<Punct(",")>> ELSE <<>>) \o Entry(i)
    IN  <<Punct("{")>> \o F[Len(m)] \o <<Punct("}")>>

\* what the reader makes of a token that is no JSON value
JSONDecodeError == [ty |-> "JSONDecodeError", v |-> ""]

\* what a JSON reader makes of one value token
JsonParseValue(t) ==
    CASE t.k = "string" -> PyStr(t.v)
      [] t.k = "number" -> PyInt(t.v)
      [] t.k = "literal" /\ t.v = "true"  -> PyBool("True")
      [] t.k = "literal" /\ t.v = "false" -> PyBool("False")
      [] t.k = "literal" /\ t.v = "null"  -> PyNone
      [] OTHER -> JSONDecodeError

\* json.load of a token sequence holding one object: the mapping read, or
\* ok = FALSE when the text is not JSON
JsonLoad(t) ==
    LET n == Len(t)
        count == IF n = 2 THEN 0 ELSE (n - 1) \div 4
        wellFormed ==
            /\ n >= 2 /\ t[1] = Punct("{") /\ t[n] = Punct("}")
            /\ (n = 2 \/ (n >= 5 /\ (n - 1) % 4 = 0))
            /\ \A i \in 1..count :
                  /\ t[4 * i - 2].k = "string"
                  /\ t[4 * i - 1] = Punct(":")
                  /\ JsonParseValue(t[4 * i]) # JSONDecodeError
                  /\ i < count => t[4 * i + 1] = Punct(",")
    IN  IF wellFormed
        THEN [ok |-> TRUE,
              value |-> [i \in 1..count |-> << t[4 * i - 2].v, JsonParseValue(t[4 * i]) >>]]
        ELSE [ok |-> FALSE, value |-> <<>>]

----------------------------------------------------------------------------
(* The run configuration *)

\* every key looked up before the with statement
MainKeysEager ==
    <<"main.project_name", "main.experiment_name", "main.steps",
      "main.components_repository",
      "etl.sample", "etl.min_price", "etl.max_price",
      "data_check.kl_threshold", "data_check.min_price", "data_check.max_price",
      "modeling.test_size", "modeling.random_seed", "modeling.stratify_by",
      "modeling.val_size", "modeling.max_tfidf_features", "modeling.random_forest">>

\* the keys go() looks up before the with statement, in order
MainKeys == <<"main.project_name", "main.experiment_name", "main.steps">>

Keys ==
    { "main.project_name", "main.experiment_name", "main.steps",
      "main.components_repository",
      "etl.sample", "etl.min_price", "etl.max_price",
      "data_check.kl_threshold", "data_check.min_price", "data_check.max_price",
      "modeling.test_size", "modeling.random_seed", "modeling.stratify_by",
      "modeling.val_size", "modeling.max_tfidf_features", "modeling.random_forest" }

ConfigVariants == {"a", "b"}

\* two complete configurations with different values under every key
BaseConfig(v) ==
    LET a == v = "a" IN
    [ key \in Keys |->
        CASE key = "main.project_name"    -> IF a THEN Str("nyc_airbnb") ELSE Str("other_project")
          [] key = "main.experiment_name" -> IF a THEN Str("development") ELSE Str("production")
          [] key = "main.steps"           -> Str("all")
          [] key = "main.components_repository" ->
                 IF a THEN Str("https://host/repo#components") ELSE Str("/local/components")
          [] key = "etl.sample"           -> IF a THEN Str("sample1.csv") ELSE Str("data.csv")
          [] key = "etl.min_price"        -> IF a THEN 20 ELSE 10
          [] key = "etl.max_price"        -> IF a THEN 350 ELSE 1000
          [] key = "data_check.kl_threshold" -> IF a THEN 2 ELSE 5
          [] key = "data_check.min_price" -> IF a THEN 10 ELSE 20
          [] key = "data_check.max_price" -> IF a THEN 350 ELSE 900
          [] key = "modeling.test_size"   -> IF a THEN 20 ELSE 30
          [] key = "modeling.random_seed" -> IF a THEN 42 ELSE 7
          [] key = "modeling.stratify_by" -> IF a THEN Str("neighbourhood_group") ELSE Str("none")
          [] key = "modeling.val_size"    -> IF a THEN 20 ELSE 25
          [] key = "modeling.max_tfidf_features" -> IF a THEN 5 ELSE 15
          [] key = "modeling.random_forest" ->
                 IF a THEN << <<"n_estimators", PyInt("100")>>,
                              <<"criterion", PyStr("squared_error")>>,
                              <<"oob_score", PyBool("True")>> >>
                      ELSE << <<"max_depth", PyNone>>,
                              <<"n_jobs", PyInt("-1")>> >> ]

Restrict(f, S) == [x \in S |-> f[x]]

\* the names a directive is written with: the six stage names, the word
\* all, a name padded with a blank, a misspelt name and the empty name
DirectiveNames ==
    { _steps[i] : i \in 1..Len(_steps) }
    \cup { Str("all"), <<" ", "basic_cleaning">>, Str("dwnload"), <<>> }

\* ",".join(names)
RECURSIVE Join(_)
Join(names) ==
    IF Len(names) = 1 THEN names[1]
    ELSE names[1] \o <<",">> \o Join(Tail(names))

\* the values of main.steps: one to MaxNames names separated by commas
Directives == { Join(ns) : ns \in SeqsUpTo(DirectiveNames, MaxNames) \ {<<>>} }

\* the configurations a run starts from, for every directive: each complete
\* configuration, and configuration "a" lacking one key
Configs ==
    { [BaseConfig(v) EXCEPT !["main.steps"] = d] : v \in ConfigVariants, d \in Directives }
    \cup
    { Restrict([BaseConfig("a") EXCEPT !["main.steps"] = d], Keys \ {k}) :
        d \in Directives, k \in Keys }

----------------------------------------------------------------------------
(* Exceptions and outcomes *)

NoExc == [type |-> "none", at |-> "none", key |-> "none"]

KeyError(where, key) == [type |-> "KeyError", at |-> where, key |-> key]

\* the exception a failed invocation raises: subprocess.run(check=True)
\* for download, mlflow.run for the other stages
StageError(s) ==
    [type |-> IF s = "download" THEN "CalledProcessError" ELSE "ExecutionException",
     at |-> s, key |-> "none"]

Has(key) == key \in DOMAIN config

\* the first key of the read sequence ks that the configuration lacks
FirstMissing(ks) ==
    LET i == CHOOSE j \in 1..Len(ks) :
                 ks[j] \notin DOMAIN config /\ \A l \in 1..(j - 1) : ks[l] \in DOMAIN config
    IN  ks[i]

AllPresent(ks) == \A i \in 1..Len(ks) : ks[i] \in DOMAIN config

\* an exit status that ignores the exception
ExitStatusZero(e) == "success"

\* exit status of the process: hydra reports an exception of go() and exits 1
ExitStatus(e) == IF e.type = "none" THEN "success" ELSE "failure"

----------------------------------------------------------------------------
(* Initial state: hydra is about to compose the configuration *)

NoEnv == [n \in {} |-> <<>>]

Init ==
    /\ pc = "load"
    /\ config \in Configs
    /\ environ = NoEnv
    /\ active_steps = <<>>
    /\ tmp_dir = NoDir
    /\ dirs = {OriginalCwd, Cwd, TempRoot}
    /\ files = [p \in {} |-> <<>>]
    /\ invoked = <<>>
    /\ exc = NoExc
    /\ outcome = "none"

----------------------------------------------------------------------------
(* @hydra.main: composes the configuration and calls go(); a configuration *)
(* that cannot be loaded ends the process before go() runs                 *)

HydraLoad ==
    /\ pc = "load"
    /\ \E loaded \in BOOLEAN :
          IF loaded
          THEN /\ pc' = "go"
               /\ UNCHANGED <<exc, outcome>>
          ELSE /\ pc' = "done"
               /\ exc' = [type |-> "ConfigLoadError", at |-> "hydra", key |-> "none"]
               /\ outcome' = ExitStatus(exc')
    /\ UNCHANGED <<config, environ, active_steps, tmp_dir, dirs, files, invoked>>

\* selection without the special case for "all"
SelectSplitOnly(steps_par) == Split(steps_par)

\* an empty directive taken to mean everything
SelectEmptyMeansAll(steps_par) ==
    IF steps_par # Str("all") /\ steps_par # <<>> THEN Split(steps_par) ELSE _steps

\* the list of steps to execute
Select(steps_par) == IF steps_par # Str("all") THEN Split(steps_par) ELSE _steps

\* both variables taken from main.project_name
SetEnvironOneKey(env) ==
    IF ~Has("main.project_name") THEN env
    ELSE ("WANDB_PROJECT" :> config["main.project_name"]) @@
         ("WANDB_RUN_GROUP" :> config["main.project_name"]) @@ env

\* the two assignments to os.environ; the second is not reached when the
\* first key is missing, neither when the first raises
SetEnviron(env) ==
    IF ~Has("main.project_name") THEN env
    ELSE IF ~Has("main.experiment_name")
    THEN ("WANDB_PROJECT" :> config["main.project_name"]) @@ env
    ELSE ("WANDB_PROJECT" :> config["main.project_name"]) @@
         ("WANDB_RUN_GROUP" :> config["main.experiment_name"]) @@ env

\* go(), up to the with statement: environment and selection
Setup ==
    /\ pc = "go"
    /\ environ' = SetEnviron(environ)
    /\ IF AllPresent(MainKeys)
       THEN /\ active_steps' = Select(config["main.steps"])
            /\ pc' = "with"
            /\ UNCHANGED <<exc, outcome>>
       ELSE /\ exc' = KeyError("go", FirstMissing(MainKeys))
            /\ outcome' = ExitStatus(exc')
            /\ pc' = "done"
            /\ UNCHANGED active_steps
    /\ UNCHANGED <<config, tmp_dir, dirs, files, invoked>>

\* with tempfile.TemporaryDirectory() as tmp_dir
EnterWorkspace ==
    /\ pc = "with"
    /\ tmp_dir' = MkdTemp
    /\ dirs' = dirs \cup {MkdTemp}
    /\ pc' = _steps[1][1]
    /\ UNCHANGED <<config, environ, active_steps, files, invoked, exc, outcome>>

----------------------------------------------------------------------------
(* The six `if` blocks *)

\* the blocks in another textual order: data_split ahead of basic_cleaning
NextPcMisordered(s) ==
    CASE s = "download"            -> "data_split"
      [] s = "data_split"          -> "basic_cleaning"
      [] s = "basic_cleaning"      -> "data_check"
      [] s = "data_check"          -> "train_random_forest"
      [] s = "train_random_forest" -> "test_regression_model"
      [] OTHER                     -> "exit"

\* a block that is entered again after it has run
NextPcAgain(s) == s

\* the block that follows block s in the text of go()
NextPc(s) == IF Pos(s) < Len(_steps) THEN _steps[Pos(s) + 1][1] ELSE "exit"

\* the condition of the block of stage s
Selected(s) == Contains(active_steps, Str(s))

Skip(s) ==
    /\ pc' = NextPc(s)
    /\ UNCHANGED <<invoked, exc>>

Raise(e) ==
    /\ pc' = "exit"
    /\ exc' = e
    /\ UNCHANGED invoked

\* an invocation that is started and not waited for
InvokeWithoutWaiting(s, how, location, entry_point, parameters) ==
    /\ invoked' = Append(invoked,
                         [stage |-> s, how |-> how, location |-> location,
                          entry_point |-> entry_point, parameters |-> parameters,
                          environ |-> environ, status |-> "running"])
    /\ pc' = IF Pos(s) < Len(_steps) THEN _steps[Pos(s) + 1][1] ELSE "exit"
    /\ UNCHANGED exc

\* subprocess.run / mlflow.run: the stage starts, as a child process that
\* inherits os.environ, and the driver blocks until it returns
Invoke(s, how, location, entry_point, parameters) ==
    /\ invoked' = Append(invoked,
                         [stage |-> s, how |-> how, location |-> location,
                          entry_point |-> entry_point, parameters |-> parameters,
                          environ |-> environ, status |-> "running"])
    /\ pc' = "running"
    /\ UNCHANGED exc

\* the component named without the separating slash
RemoteComponentNoSlash(repository, component) == repository \o <<component>>

\* f"{config['main']['components_repository']}/<component>"
RemoteComponent(repository, component) == repository \o <<"/", component>>

Frame == UNCHANGED <<config, environ, active_steps, tmp_dir, dirs, outcome>>

DownloadKeys == <<"etl.sample">>

DownloadParams ==
    [ sample |-> config["etl.sample"],
      artifact_name |-> Str("sample.csv"),
      artifact_type |-> Str("raw_data"),
      artifact_description |-> Str("Raw file as downloaded") ]

Download ==
    /\ pc = "download"
    /\ IF ~Selected("download") THEN Skip("download")
       ELSE IF ~AllPresent(DownloadKeys)
       THEN Raise(KeyError("download", FirstMissing(DownloadKeys)))
       ELSE Invoke("download", "subprocess.run",
                   <<"components", "get_data", "manual.py">>, <<>>, DownloadParams)
    /\ UNCHANGED files
    /\ Frame

BasicCleaningKeys == <<"etl.min_price", "etl.max_price">>

\* the input artifact named without its qualifier
BasicCleaningParamsUnqualified ==
    [ input_artifact |-> Str("sample.csv"),
      output_artifact |-> Str("clean_sample.csv"),
      output_type |-> Str("clean_sample"),
      output_description |-> Str("Data with outliers and null values removed"),
      min_price |-> config["etl.min_price"],
      max_price |-> config["etl.max_price"] ]

BasicCleaningParams ==
    [ input_artifact |-> <<"sample.csv", ":", "latest">>,
      output_artifact |-> Str("clean_sample.csv"),
      output_type |-> Str("clean_sample"),
      output_description |-> Str("Data with outliers and null values removed"),
      min_price |-> config["etl.min_price"],
      max_price |-> config["etl.max_price"] ]

BasicCleaning ==
    /\ pc = "basic_cleaning"
    /\ IF ~Selected("basic_cleaning") THEN Skip("basic_cleaning")
       ELSE IF ~AllPresent(BasicCleaningKeys)
       THEN Raise(KeyError("basic_cleaning", FirstMissing(BasicCleaningKeys)))
       ELSE Invoke("basic_cleaning", "mlflow.run",
                   PathJoin(OriginalCwd, <<"src", "basic_cleaning">>), Str("main"),
                   BasicCleaningParams)
    /\ UNCHANGED files
    /\ Frame

DataCheckKeys == <<"data_check.kl_threshold", "data_check.min_price", "data_check.max_price">>

\* the reference dataset qualified latest
DataCheckParamsLatestRef ==
    [ csv |-> <<"clean_sample.csv", ":", "latest">>,
      ref |-> <<"clean_sample.csv", ":", "latest">>,
      kl_threshold |-> config["data_check.kl_threshold"],
      min_price |-> config["data_check.min_price"],
      max_price |-> config["data_check.max_price"] ]

DataCheckParams ==
    [ csv |-> <<"clean_sample.csv", ":", "latest">>,
      ref |-> <<"clean_sample.csv", ":", "reference">>,
      kl_threshold |-> config["data_check.kl_threshold"],
      min_price |-> config["data_check.min_price"],
      max_price |-> config["data_check.max_price"] ]

DataCheck ==
    /\ pc = "data_check"
    /\ IF ~Selected("data_check") THEN Skip("data_check")
       ELSE IF ~AllPresent(DataCheckKeys)
       THEN Raise(KeyError("data_check", FirstMissing(DataCheckKeys)))
       ELSE Invoke("data_check", "mlflow.run",
                   PathJoin(OriginalCwd, <<"src", "data_check">>), Str("main"),
                   DataCheckParams)
    /\ UNCHANGED files
    /\ Frame

DataSplitKeys ==
    <<"main.components_repository", "modeling.test_size", "modeling.random_seed",
      "modeling.stratify_by">>

\* a seed that moves with the number of invocations made so far
DataSplitParamsCounting ==
    [ input |-> <<"clean_sample.csv", ":", "latest">>,
      test_size |-> config["modeling.test_size"],
      random_seed |-> config["modeling.random_seed"] + Len(invoked),
      stratify_by |-> config["modeling.stratify_by"] ]

DataSplitParams ==
    [ input |-> <<"clean_sample.csv", ":", "latest">>,
      test_size |-> config["modeling.test_size"],
      random_seed |-> config["modeling.random_seed"],
      stratify_by |-> config["modeling.stratify_by"] ]

DataSplit ==
    /\ pc = "data_split"
    /\ IF ~Selected("data_split") THEN Skip("data_split")
       ELSE IF ~AllPresent(DataSplitKeys)
       THEN Raise(KeyError("data_split", FirstMissing(DataSplitKeys)))
       ELSE Invoke("data_split", "mlflow.run",
                   RemoteComponent(config["main.components_repository"], "train_val_test_split"),
                   Str("main"), DataSplitParams)
    /\ UNCHANGED files
    /\ Frame

\* open(path, "w+") followed by a write: the file is created or truncated
WriteFile(fs, path, content) == (path :> content) @@ fs

\* where the hyperparameter file is written
rf_config == Abspath(<<"rf_config.json">>)

TrainRandomForestKeys ==
    <<"modeling.val_size", "modeling.random_seed", "modeling.stratify_by",
      "modeling.max_tfidf_features">>

\* the seed of the training stage read from another key
TrainRandomForestParamsOwnSeed ==
    [ trainval_artifact |-> <<"trainval_data.csv", ":", "latest">>,
      val_size |-> config["modeling.val_size"],
      random_seed |-> config["modeling.val_size"],
      stratify_by |-> config["modeling.stratify_by"],
      rf_config |-> rf_config,
      max_tfidf_features |-> config["modeling.max_tfidf_features"],
      output_artifact |-> Str("random_forest_export") ]

TrainRandomForestParams ==
    [ trainval_artifact |-> <<"trainval_data.csv", ":", "latest">>,
      val_size |-> config["modeling.val_size"],
      random_seed |-> config["modeling.random_seed"],
      stratify_by |-> config["modeling.stratify_by"],
      rf_config |-> rf_config,
      max_tfidf_features |-> config["modeling.max_tfidf_features"],
      output_artifact |-> Str("random_forest_export") ]

TrainRandomForest ==
    /\ pc = "train_random_forest"
    /\ IF ~Selected("train_random_forest")
       THEN Skip("train_random_forest") /\ UNCHANGED files
       ELSE IF ~Has("modeling.random_forest")
       THEN /\ Raise(KeyError("train_random_forest", "modeling.random_forest"))
            /\ UNCHANGED files
       ELSE /\ files' = WriteFile(files, rf_config, JsonDump(config["modeling.random_forest"]))
            /\ IF ~AllPresent(TrainRandomForestKeys)
               THEN Raise(KeyError("train_random_forest", FirstMissing(TrainRandomForestKeys)))
               ELSE Invoke("train_random_forest", "mlflow.run",
                           PathJoin(OriginalCwd, <<"src", "train_random_forest">>),
                           Str("main"), TrainRandomForestParams)
    /\ Frame

TestRegressionModelKeys == <<"main.components_repository">>

TestRegressionModelParams ==
    [ mlflow_model |-> <<"random_forest_export", ":", "prod">>,
      test_dataset |-> <<"test_data.csv", ":", "latest">> ]

TestRegressionModel ==
    /\ pc = "test_regression_model"
    /\ IF ~Selected("test_regression_model") THEN Skip("test_regression_model")
       ELSE IF ~AllPresent(TestRegressionModelKeys)
       THEN Raise(KeyError("test_regression_model", FirstMissing(TestRegressionModelKeys)))
       ELSE Invoke("test_regression_model", "mlflow.run",
                   RemoteComponent(config["main.components_repository"], "test_regression_model"),
                   Str("main"), TestRegressionModelParams)
    /\ UNCHANGED files
    /\ Frame

\* an invocation whose failure is not turned into an exception
RaisesNever(ok) == FALSE

\* the parameter set the block of stage s builds in the current state
ParamsOf(s) ==
    CASE s = "download"              -> DownloadParams
      [] s = "basic_cleaning"        -> BasicCleaningParams
      [] s = "data_check"            -> DataCheckParams
      [] s = "data_split"            -> DataSplitParams
      [] s = "train_random_forest"   -> TrainRandomForestParams
      [] s = "test_regression_model" -> TestRegressionModelParams

\* whether the outcome ok of an invocation makes the invoking call raise:
\* subprocess.run(..., check=True) and mlflow.run raise on a failed run
Raises(ok) == ~ok

\* the blocking invocation returns
StageReturn ==
    /\ pc = "running"
    /\ \E ok \in BOOLEAN :
          LET n == Len(invoked)
              s == invoked[n].stage
          IN  /\ invoked' = [invoked EXCEPT ![n].status = IF ok THEN "ok" ELSE "failed"]
              /\ IF Raises(ok)
                 THEN pc' = "exit" /\ exc' = StageError(s)
                 ELSE pc' = NextPc(s) /\ UNCHANGED exc
    /\ UNCHANGED files
    /\ Frame

\* a cleanup that runs on normal completion only
DirsAfterCleanupOnSuccess(ds, d, e) ==
    IF e.type = "none" THEN { x \in ds : x # d /\ ~IsUnder(x, d) } ELSE ds

\* TemporaryDirectory.cleanup(): the directory and everything in it is removed,
\* whatever exception e is leaving the with block
DirsAfterCleanup(ds, d, e) == { x \in ds : x # d /\ ~IsUnder(x, d) }

FilesAfterCleanup(fs, d) == Restrict(fs, { p \in DOMAIN fs : ~IsUnder(p, d) })

\* the with block is left, normally or by an exception; go() returns or
\* raises and the process ends
ExitWorkspace ==
    /\ pc = "exit"
    /\ dirs' = DirsAfterCleanup(dirs, tmp_dir, exc)
    /\ files' = FilesAfterCleanup(files, tmp_dir)
    /\ outcome' = ExitStatus(exc)
    /\ pc' = "done"
    /\ UNCHANGED <<config, environ, active_steps, tmp_dir, invoked, exc>>

Next ==
    \/ HydraLoad
    \/ Setup
    \/ EnterWorkspace
    \/ Download
    \/ BasicCleaning
    \/ DataCheck
    \/ DataSplit
    \/ TrainRandomForest
    \/ TestRegressionModel
    \/ StageReturn
    \/ ExitWorkspace

Spec == Init /\ [][Next]_vars

----------------------------------------------------------------------------
(* Vocabulary of the properties *)

Ended == pc = "done"

\* x is an element of the sequence
Occurs(seq, x) == x \in { seq[i] : i \in 1..Len(seq) }

\* the names written in main.steps, when the key is present
Names == IF Has("main.steps") THEN Split(config["main.steps"]) ELSE <<>>

IsAll == Has("main.steps") /\ config["main.steps"] = Str("all")

\* a subset directive all of whose names are stage names
ValidSubset ==
    /\ Has("main.steps") /\ ~IsAll
    /\ \A i \in 1..Len(Names) : Occurs(_steps, Names[i])

\* a subset directive with a name outside the catalog
HasForeignName ==
    /\ Has("main.steps") /\ ~IsAll
    /\ \E i \in 1..Len(Names) : ~Occurs(_steps, Names[i])

\* stage s is requested by the directive
Requested(s) == IsAll \/ Occurs(Names, Str(s))

\* the configuration keys the block of stage s reads
KeysOf(s) ==
    CASE s = "download"              -> DownloadKeys
      [] s = "basic_cleaning"        -> BasicCleaningKeys
      [] s = "data_check"            -> DataCheckKeys
      [] s = "data_split"            -> DataSplitKeys
      [] s = "train_random_forest"   -> <<"modeling.random_forest">> \o TrainRandomForestKeys
      [] s = "test_regression_model" -> TestRegressionModelKeys

InvokedOk(s) == \E i \in 1..Len(invoked) : invoked[i].stage = s /\ invoked[i].status = "ok"

SomeFailed == \E i \in 1..Len(invoked) : invoked[i].status = "failed"

\* the invocations follow canonical order, each stage at most once
InCanonicalOrder ==
    \A i, j \in 1..Len(invoked) : i < j => Pos(invoked[i].stage) < Pos(invoked[j].stage)

----------------------------------------------------------------------------
(* Properties *)

\* C1: fail-fast.  Once the invocation of a stage B has failed, no stage is
\* invoked after it (so none that follows B in canonical order), the run
\* never ends in success, and it ends in failure with B's exception.
C1_FailFast ==
    \A i \in 1..Len(invoked) :
        invoked[i].status = "failed" =>
            /\ i = Len(invoked)
            /\ \A j \in 1..Len(invoked) :
                  j # i => Pos(invoked[j].stage) < Pos(invoked[i].stage)
            /\ pc \in {"exit", "done"}
            /\ outcome # "success"
            /\ Ended => outcome = "failure" /\ exc = StageError(invoked[i].stage)

\* a run [A, B, C...] ended after A succeeded and B failed, C never invoked
C1_Witness ==
    /\ Ended /\ Len(invoked) = 2
    /\ invoked[1].status = "ok" /\ invoked[2].status = "failed"
    /\ \E s \in StageNames : Requested(s) /\ Pos(s) > Pos(invoked[2].stage)

\* C2: for a subset directive made only of stage names, in any order, the
\* stages are invoked in canonical order; "data_split,download" invokes
\* download before data_split.
C2_CanonicalOrder == ValidSubset => InCanonicalOrder

C2_Witness ==
    /\ Has("main.steps")
    /\ config["main.steps"] = Join(<<Str("data_split"), Str("download")>>)
    /\ Len(invoked) = 2
    /\ invoked[1].stage = "download" /\ invoked[2].stage = "data_split"

\* C3: with the directive "all" the selected list is the canonical list, the
\* invocations are always an initial part of it, and a run that ends in
\* success has invoked all six stages, each once, in canonical order.
C3_AllSelectsEverything ==
    IsAll =>
        /\ tmp_dir # NoDir => active_steps = _steps
        /\ Len(invoked) <= Len(_steps)
        /\ \A i \in 1..Len(invoked) : Str(invoked[i].stage) = _steps[i]
        /\ Ended /\ outcome = "success" => Len(invoked) = Len(_steps)

C3_Witness ==
    /\ IsAll /\ Ended /\ outcome = "success"
    /\ Len(invoked) = 6 /\ \A i \in 1..6 : invoked[i].status = "ok"

C5_MissingKeyBeforeAnyStage ==
    (\E s \in StageNames : Requested(s) /\ ~AllPresent(KeysOf(s))) =>
        /\ invoked = <<>>
        /\ Ended => outcome = "failure"

\* C6: once the run has ended, on whichever path, the directory created for
\* the run and everything inside it no longer exists.
C6_WorkspaceTeardown ==
    (Ended /\ tmp_dir # NoDir) =>
        /\ tmp_dir \notin dirs
        /\ \A d \in dirs : ~IsUnder(d, tmp_dir)
        /\ \A p \in DOMAIN files : ~IsUnder(p, tmp_dir)

\* the run ended on a KeyError raised inside the with block after a stage
C6_Witness ==
    /\ Ended /\ tmp_dir # NoDir
    /\ exc.type = "KeyError" /\ invoked # <<>>

\* C7: while train_random_forest is being invoked, the file named by its
\* rf_config parameter exists, the parameter is an absolute path, and
\* reading the file as JSON gives the modeling.random_forest mapping.
C7_HyperparameterFile ==
    \A i \in 1..Len(invoked) :
        (invoked[i].stage = "train_random_forest" /\ invoked[i].status = "running") =>
            LET path == invoked[i].parameters.rf_config
            IN  /\ IsAbsolute(path)
                /\ path \in DOMAIN files
                /\ JsonLoad(files[path]).ok
                /\ JsonLoad(files[path]).value = config["modeling.random_forest"]

\* train_random_forest alone is being invoked
C7_Witness ==
    /\ Has("main.steps") /\ config["main.steps"] = Str("train_random_forest")
    /\ pc = "running" /\ Len(invoked) = 1
    /\ invoked[1].stage = "train_random_forest"

\* C8 as stated: the hyperparameter file lies inside the workspace of the
\* run, and no file written by the run remains once the run has ended.
C8_FileInsideWorkspace ==
    /\ \A p \in DOMAIN files : IsUnder(p, tmp_dir)
    /\ Ended => DOMAIN files = {}

\* C9: with the directive "download,basic_cleaning" at most two stages are
\* invoked, download first, then basic_cleaning with input_artifact
\* "sample.csv:latest" and the etl prices; a run ending in success has
\* made exactly these two invocations.
C9_DownloadThenCleaning ==
    (Has("main.steps")
     /\ config["main.steps"] = Join(<<Str("download"), Str("basic_cleaning")>>)) =>
        /\ Len(invoked) <= 2
        /\ Len(invoked) >= 1 => invoked[1].stage = "download"
        /\ Len(invoked) >= 2 =>
              /\ invoked[1].status = "ok"
              /\ invoked[2].stage = "basic_cleaning"
              /\ invoked[2].parameters.input_artifact = <<"sample.csv", ":", "latest">>
              /\ invoked[2].parameters.min_price = config["etl.min_price"]
              /\ invoked[2].parameters.max_price = config["etl.max_price"]
        /\ (Ended /\ outcome = "success") =>
              Len(invoked) = 2 /\ invoked[2].status = "ok"

C9_Witness ==
    /\ Has("main.steps")
    /\ config["main.steps"] = Join(<<Str("download"), Str("basic_cleaning")>>)
    /\ Ended /\ outcome = "success" /\ Len(invoked) = 2
    /\ config["etl.sample"] = Str("data.csv")
    /\ config["etl.min_price"] = 10 /\ config["etl.max_price"] = 1000

\* C10: a run that has ended has failed exactly when the configuration
\* could not be loaded, a key that was looked up is missing, or an invoked
\* stage failed; it has succeeded exactly when the selection was made and
\* every selected stage was invoked and succeeded.
C10_ExitBehaviour ==
    Ended =>
        /\ outcome \in {"success", "failure"}
        /\ outcome = "failure" <=>
              \/ exc.type = "ConfigLoadError"
              \/ exc.type = "KeyError" /\ ~Has(exc.key)
              \/ SomeFailed
        /\ outcome = "success" <=>
              /\ tmp_dir # NoDir
              /\ \A s \in StageNames : Requested(s) => InvokedOk(s)

\* a run of two stages named one by one ended in success
C10_Witness ==
    /\ Ended /\ outcome = "success" /\ ~IsAll
    /\ Len(invoked) = 2 /\ \A s \in StageNames : Requested(s) <=> InvokedOk(s)

\* C11: the two environment variables are set from main.project_name and
\* main.experiment_name before the first stage is invoked, every stage is
\* invoked with these values, and they stay so for the rest of the run.
C11_EnvironmentBeforeStages ==
    invoked # <<>> =>
        /\ DOMAIN environ = {"WANDB_PROJECT", "WANDB_RUN_GROUP"}
        /\ environ["WANDB_PROJECT"] = config["main.project_name"]
        /\ environ["WANDB_RUN_GROUP"] = config["main.experiment_name"]
        /\ \A i \in 1..Len(invoked) : invoked[i].environ = environ

\* a second stage is being invoked
C11_Witness ==
    /\ Len(invoked) = 2 /\ invoked[2].status = "running"
    /\ invoked[1].environ = invoked[2].environ
    /\ "WANDB_RUN_GROUP" \in DOMAIN invoked[2].environ

\* C12 as stated: once the run has ended the environment variables no
\* longer carry the values of this run.
C12_EnvironmentNotLeaked ==
    Ended =>
        \A n \in DOMAIN environ :
            /\ n = "WANDB_PROJECT" =>
                  ~(Has("main.project_name") /\ environ[n] = config["main.project_name"])
            /\ n = "WANDB_RUN_GROUP" =>
                  ~(Has("main.experiment_name") /\ environ[n] = config["main.experiment_name"])

\* C13: at most one stage is executing at any time: only the latest
\* invocation can be running, exactly while the driver waits for it, and
\* every earlier invocation has returned successfully.
C13_OneStageAtATime ==
    /\ \A i \in 1..Len(invoked) :
          invoked[i].status = "running" => i = Len(invoked) /\ pc = "running"
    /\ \A i \in 1..(Len(invoked) - 1) : invoked[i].status = "ok"
    /\ pc = "running" => invoked # <<>> /\ invoked[Len(invoked)].status = "running"

\* a stage is running after an earlier one has returned
C13_Witness ==
    /\ pc = "running" /\ Len(invoked) = 3
    /\ invoked[1].status = "ok" /\ invoked[2].status = "ok"
    /\ invoked[3].status = "running"

RefsOf(c) ==
    CASE c.stage = "basic_cleaning"        -> {c.parameters.input_artifact}
      [] c.stage = "data_check"            -> {c.parameters.csv, c.parameters.ref}
      [] c.stage = "data_split"            -> {c.parameters.input}
      [] c.stage = "train_random_forest"   -> {c.parameters.trainval_artifact}
      [] c.stage = "test_regression_model" ->
             {c.parameters.mlflow_model, c.parameters.test_dataset}
      [] OTHER                             -> {}

\* the string r reads name:qualifier with the given qualifier
Qualified(r, q) == Len(r) = 3 /\ r[1] # ":" /\ r[2] = ":" /\ r[3] = q

\* C15: in every invocation, whatever the configuration and the other
\* stages, the input of basic_cleaning is qualified latest, the reference
\* dataset of data_check reference, the model of test_regression_model
\* prod, and every reference to an input artifact reads name:qualifier
\* with the qualifier latest, reference or prod.
C15_QualifiersFixed ==
    \A i \in 1..Len(invoked) :
        LET c == invoked[i] IN
        /\ c.stage = "basic_cleaning" => Qualified(c.parameters.input_artifact, "latest")
        /\ c.stage = "data_check" => Qualified(c.parameters.ref, "reference")
        /\ c.stage = "test_regression_model" => Qualified(c.parameters.mlflow_model, "prod")
        /\ \A r \in RefsOf(c) : \E q \in {"latest", "reference", "prod"} : Qualified(r, q)

C15_Witness ==
    /\ Ended /\ Len(invoked) = 2
    /\ invoked[1].stage = "data_check" /\ invoked[2].stage = "test_regression_model"

\* the stages whose code lies in the components repository
RemoteStages == {"data_split", "test_regression_model"}

\* C16 as stated: every stage is invoked with the entry point "main" and a
\* location that is a local path or, for the stages of the components
\* repository, <components_repository>/<stage name>.
C16_UniformContract ==
    \A i \in 1..Len(invoked) :
        LET c == invoked[i] IN
        /\ c.entry_point = Str("main")
        /\ c.stage \in RemoteStages =>
              c.location = config["main.components_repository"] \o <<"/", c.stage>>

\* the name of the component that stage s is run from
ComponentOf(s) == IF s = "data_split" THEN "train_val_test_split" ELSE s

\* the names of the parameters stage s is invoked with
ParamNames(s) ==
    CASE s = "download" ->
             {"sample", "artifact_name", "artifact_type", "artifact_description"}
      [] s = "basic_cleaning" ->
             {"input_artifact", "output_artifact", "output_type", "output_description",
              "min_price", "max_price"}
      [] s = "data_check" -> {"csv", "ref", "kl_threshold", "min_price", "max_price"}
      [] s = "data_split" -> {"input", "test_size", "random_seed", "stratify_by"}
      [] s = "train_random_forest" ->
             {"trainval_artifact", "val_size", "random_seed", "stratify_by", "rf_config",
              "max_tfidf_features", "output_artifact"}
      [] s = "test_regression_model" -> {"mlflow_model", "test_dataset"}

\* C16 amended: download is run as a subprocess of the script
\* components/get_data/manual.py, with no entry point; every other stage
\* is run by mlflow.run with the entry point "main", from the local path
\* <original directory>/src/<stage name> or, for data_split and
\* test_regression_model, from <components_repository>/<component>, the
\* component of data_split being train_val_test_split; each with its flat
\* mapping of named parameters.
C16_InvocationContract ==
    \A i \in 1..Len(invoked) :
        LET c == invoked[i] IN
        /\ DOMAIN c.parameters = ParamNames(c.stage)
        /\ IF c.stage = "download"
           THEN /\ c.how = "subprocess.run"
                /\ c.entry_point = <<>>
                /\ c.location = <<"components", "get_data", "manual.py">>
           ELSE /\ c.how = "mlflow.run"
                /\ c.entry_point = Str("main")
                /\ c.location =
                      IF c.stage \in RemoteStages
                      THEN config["main.components_repository"]
                               \o <<"/", ComponentOf(c.stage)>>
                      ELSE OriginalCwd \o <<"src", c.stage>>

\* download, then data_split, have been invoked
C16_Witness ==
    /\ Len(invoked) = 2
    /\ invoked[1].stage = "download" /\ invoked[2].stage = "data_split"
    /\ invoked[2].status = "ok"

\* C17: for every directive, also one that names a stage several times,
\* each stage is invoked at most once and never after a stage that follows
\* it in canonical order; a stage that has returned is not invoked again.
C17_StrictlyForward ==
    /\ InCanonicalOrder
    /\ Cardinality({ invoked[i].stage : i \in 1..Len(invoked) }) = Len(invoked)

\* the directive names download twice and the run has ended
C17_Witness ==
    /\ Has("main.steps")
    /\ config["main.steps"] = Join(<<Str("download"), Str("download")>>)
    /\ Ended /\ Len(invoked) = 1 /\ invoked[1].status = "ok"

\* the configuration has the three keys read before the with statement
HasMainKeys ==
    Has("main.project_name") /\ Has("main.experiment_name") /\ Has("main.steps")

\* C18: a stage is invoked only when the directive is "all" or one of its
\* comma-separated names is exactly the name of the stage; a directive
\* none of whose names is a stage name invokes nothing and, the
\* configuration being loaded with its main keys, ends in success.
C18_OnlyNamedStages ==
    /\ \A i \in 1..Len(invoked) :
          /\ invoked[i].stage \in StageNames
          /\ IsAll \/ Str(invoked[i].stage) \in { Names[k] : k \in 1..Len(Names) }
    /\ (Has("main.steps") /\ \A s \in StageNames : ~Requested(s)) =>
          /\ invoked = <<>>
          /\ (Ended /\ HasMainKeys /\ exc.type # "ConfigLoadError") => outcome = "success"

\* the directive is the empty string and the run has ended in success
C18_Witness ==
    /\ Has("main.steps") /\ config["main.steps"] = <<>>
    /\ Ended /\ outcome = "success" /\ invoked = <<>>

\* C19: a run that has ended, whose configuration was loaded with its main
\* keys and with every key of the requested stages, and none of whose
\* stages failed, has ended in success with every requested stage invoked,
\* whichever other keys are missing.
C19_LazyKeys ==
    (/\ Ended /\ HasMainKeys /\ exc.type # "ConfigLoadError"
     /\ \A s \in StageNames : Requested(s) => AllPresent(KeysOf(s))
     /\ ~SomeFailed)
        => /\ outcome = "success"
           /\ \A s \in StageNames : Requested(s) => InvokedOk(s)

\* download alone has succeeded without the modeling.random_forest key
C19_Witness ==
    /\ Has("main.steps") /\ config["main.steps"] = Str("download")
    /\ ~Has("modeling.random_forest")
    /\ Ended /\ outcome = "success" /\ InvokedOk("download")

\* C20: data_split and train_random_forest, when both are invoked, are
\* given the same random_seed and the same stratify_by.
C20_SameSeedAndStratify ==
    \A i, j \in 1..Len(invoked) :
        (invoked[i].stage = "data_split" /\ invoked[j].stage = "train_random_forest") =>
            /\ invoked[i].parameters.random_seed = invoked[j].parameters.random_seed
            /\ invoked[i].parameters.stratify_by = invoked[j].parameters.stratify_by
            /\ invoked[j].parameters.random_seed = config["modeling.random_seed"]
            /\ invoked[j].parameters.stratify_by = config["modeling.stratify_by"]

C20_Witness ==
    /\ Len(invoked) = 2
    /\ invoked[1].stage = "data_split" /\ invoked[2].stage = "train_random_forest"

====
